---- MODULE Spec2Model ----
(***************************************************************************)
(* Model of the QuizWiz quiz page (src/script.js): the three module-level  *)
(* variables, the part of the DOM the handlers read and write (the answer  *)
(* buttons, the next button, the question element), the fetches in flight  *)
(* and the position of the top-level script.  The texts of questions and   *)
(* answers are left out: an answer is its correct flag, a button its       *)
(* dataset.correct, disabled and classList.                                 *)
(***************************************************************************)
EXTENDS Integers, Sequences, FiniteSets, TLC

VARIABLES currentQuestionIndex, score, questions, answerButtons, nextButton,
          questionElement, inFlight, pc, ev, shuffle

vars == <<currentQuestionIndex, score, questions, answerButtons, nextButton,
          questionElement, inFlight, pc, ev, shuffle>>

\* Bounds of the model.
MaxQuestions == 2
NumIncorrect == 1
MaxInFlight == 2
MaxScore == 3
MaxLen == 3

----------------------------------------------------------------------------
\* shuffleArray (script.js 41-47)

\* array[i] = array[j] without the exchange
SwapOverwrite(array, i, j) ==
  [k \in 1..Len(array) |-> IF k = i + 1 THEN array[j + 1] ELSE array[k]]

\* [array[i], array[j]] = [array[j], array[i]] with 0-based i, j
Swap(array, i, j) ==
  [k \in 1..Len(array) |->
     IF k = i + 1 THEN array[j + 1]
     ELSE IF k = j + 1 THEN array[i + 1]
     ELSE array[k]]

\* j drawn from the whole array at every step: Math.random() * array.length
RandomChoicesNaive(n) == [1..(n - 1) -> 0..(n - 1)]

\* The values Math.floor(Math.random() * (i + 1)) can take for every i of
\* the loop over an array of length n: js[i] \in 0..i for i \in 1..n-1.
RandomChoices(n) ==
  {js \in [1..(n - 1) -> 0..(n - 1)] : \A i \in 1..(n - 1) : js[i] <= i}

RECURSIVE ShuffleLoop(_, _, _)
ShuffleLoop(array, i, js) ==
  IF i > 0 THEN ShuffleLoop(Swap(array, i, js[i]), i - 1, js) ELSE array

ShuffleArray(array, js) == ShuffleLoop(array, Len(array) - 1, js)

----------------------------------------------------------------------------
\* The session state the handlers work on, as one record.

Cur ==
  [currentQuestionIndex |-> currentQuestionIndex,
   score |-> score,
   questions |-> questions,
   answerButtons |-> answerButtons,
   nextButton |-> nextButton,
   questionElement |-> questionElement]

Set(r) ==
  \E t \in {r} :
  /\ currentQuestionIndex' = t.currentQuestionIndex
  /\ score' = t.score
  /\ questions' = t.questions
  /\ answerButtons' = t.answerButtons
  /\ nextButton' = t.nextButton
  /\ questionElement' = t.questionElement

\* The record of the last operation (history variable, not program state).
\* op is the operation, outcome its variant, stale whether a newer fetch had
\* been started when the response arrived, at and correct the target of
\* selectAnswer, raw the results of the response, from what the question
\* element showed before the operation.
\* It also counts, since the last response that ran startQuiz: answered,
\* the clicks on answer buttons; right, those of them on a correct answer;
\* advanced, the runs of handleNextButton; and fetches, the fetches issued
\* since the last startQuiz or showScore (0, 1, or 2 for two and more).
Ev(op, outcome, stale, at, correct, raw) ==
  LET restart == op = "response" /\ outcome \in {"started", "empty"}
      click == op = "selectAnswer" /\ outcome = "click"
      last == op = "advance"
                /\ ~(currentQuestionIndex + 1 < Len(questions))
  IN
  [op |-> op, outcome |-> outcome, stale |-> stale, at |-> at,
   correct |-> correct, raw |-> raw, from |-> questionElement.kind,
   answered |-> IF restart THEN 0
                ELSE IF click THEN ev.answered + 1 ELSE ev.answered,
   right |-> IF restart THEN 0
             ELSE IF click /\ correct THEN ev.right + 1 ELSE ev.right,
   advanced |-> IF restart THEN 0
                ELSE IF op = "advance" THEN ev.advanced + 1
                ELSE ev.advanced,
   fetches |-> IF restart \/ last THEN 0
               ELSE IF op = "fetch"
                    THEN (IF ev.fetches < 2 THEN ev.fetches + 1 ELSE 2)
               ELSE ev.fetches]

\* resetState that leaves the next button as it is
ResetStateKeepNext(s) ==
  [s EXCEPT !.answerButtons = <<>>]

\* resetState (95-100)
ResetState(s) ==
  [s EXCEPT !.nextButton.display = "none", !.answerButtons = <<>>]

\* One button per answer (79-89); dataset.correct is set only for the
\* correct answer, so dataset.correct == "true" is answer.correct.
MakeButton(answer) ==
  [correct |-> answer.correct, disabled |-> FALSE, classList |-> {"btn"}]

\* showQuestion (73-90).  questions[currentQuestionIndex] is undefined when
\* the index is not below questions.length; reading .question of it throws
\* after resetState has run.
ShowQuestionThrows(s) == ~(s.currentQuestionIndex < Len(s.questions))

ShowQuestion(s) ==
  LET r == ResetState(s) IN
  IF ShowQuestionThrows(s) THEN r
  ELSE LET currentQuestion == r.questions[r.currentQuestionIndex + 1] IN
       [r EXCEPT
          !.questionElement =
             [kind |-> "question", no |-> r.currentQuestionIndex + 1,
              score |-> 0, total |-> 0],
          !.answerButtons =
             [k \in 1..Len(currentQuestion) |-> MakeButton(currentQuestion[k])]]

\* startQuiz that does not reset the score
StartQuizKeepScore(s) ==
  ShowQuestion([s EXCEPT !.currentQuestionIndex = 0,
                         !.nextButton.innerHTML = "Next"])

\* startQuiz that does not reset the index
StartQuizKeepIndex(s) ==
  ShowQuestion([s EXCEPT !.score = 0, !.nextButton.innerHTML = "Next"])

\* startQuiz (63-68)
StartQuiz(s) ==
  ShowQuestion([s EXCEPT !.currentQuestionIndex = 0, !.score = 0,
                         !.nextButton.innerHTML = "Next"])

\* showScore that clears the score once it is displayed
ShowScoreResetsScore(s) ==
  LET r == ResetState(s) IN
  [r EXCEPT
     !.questionElement =
        [kind |-> "score", no |-> 0, score |-> r.score,
         total |-> Len(r.questions)],
     !.score = 0,
     !.nextButton = [innerHTML |-> "Play Again", display |-> "block"]]

\* showScore (128-133)
ShowScore(s) ==
  LET r == ResetState(s) IN
  [r EXCEPT
     !.questionElement =
        [kind |-> "score", no |-> 0, score |-> r.score,
         total |-> Len(r.questions)],
     !.nextButton = [innerHTML |-> "Play Again", display |-> "block"]]

\* handleNextButton that compares with <= instead of <
HandleNextButtonOffByOne(s) ==
  LET r == [s EXCEPT !.currentQuestionIndex = @ + 1] IN
  IF r.currentQuestionIndex <= Len(r.questions) THEN ShowQuestion(r)
  ELSE ShowScore(r)

\* handleNextButton (138-145)
HandleNextButton(s) ==
  LET r == [s EXCEPT !.currentQuestionIndex = @ + 1] IN
  IF r.currentQuestionIndex < Len(r.questions) THEN ShowQuestion(r)
  ELSE ShowScore(r)

\* selectAnswer that counts every selection
SelectAnswerAlwaysScores(s, target) ==
  LET mark == IF target.correct THEN "correct" ELSE "incorrect" IN
  [s EXCEPT
     !.score = @ + 1,
     !.answerButtons =
        [k \in 1..Len(@) |->
           [@[k] EXCEPT
              !.classList = @ \cup (IF k = target.at THEN {mark} ELSE {})
                              \cup (IF s.answerButtons[k].correct
                                    THEN {"correct"} ELSE {}),
              !.disabled = TRUE]],
     !.nextButton.display = "block"]

\* selectAnswer that marks only the clicked button
SelectAnswerNoHighlight(s, target) ==
  LET mark == IF target.correct THEN "correct" ELSE "incorrect" IN
  [s EXCEPT
     !.score = IF target.correct THEN @ + 1 ELSE @,
     !.answerButtons =
        [k \in 1..Len(@) |->
           [@[k] EXCEPT
              !.classList = @ \cup (IF k = target.at THEN {mark} ELSE {}),
              !.disabled = TRUE]],
     !.nextButton.display = "block"]

\* selectAnswer (106-123).  target is the clicked button: at = k > 0 for
\* the k-th child of answerButtons, at = 0 for a button that is not in the
\* document (testSelectAnswer, 189-192); correct is dataset.correct == "true".
SelectAnswer(s, target) ==
  LET mark == IF target.correct THEN "correct" ELSE "incorrect" IN
  [s EXCEPT
     !.score = IF target.correct THEN @ + 1 ELSE @,
     !.answerButtons =
        [k \in 1..Len(@) |->
           [@[k] EXCEPT
              !.classList = @ \cup (IF k = target.at THEN {mark} ELSE {})
                              \cup (IF s.answerButtons[k].correct
                                    THEN {"correct"} ELSE {}),
              !.disabled = TRUE]],
     !.nextButton.display = "block"]

----------------------------------------------------------------------------
\* fetchQuestions (13-34)

\* data.results: one entry per raw record, the number of its
\* incorrect_answers.  The request asks for type=multiple (15): every
\* record of a response has the same number of incorrect answers.
RawResults ==
  UNION {[1..n -> {NumIncorrect}] : n \in 0..MaxQuestions}

\* every answer built with correct: true
RawAnswersAllCorrect(n) ==
  [k \in 1..(n + 1) |-> [correct |-> TRUE]]

\* The answers of one raw record before the shuffle (25-26)
RawAnswers(n) ==
  [k \in 1..(n + 1) |-> [correct |-> (k = 1)]]

\* The shuffles of the answers of every record of raw
RandomSources(raw) ==
  LET all == UNION {RandomChoices(raw[q] + 1) : q \in 1..Len(raw)} IN
  {rnd \in [1..Len(raw) -> all] :
     \A q \in 1..Len(raw) : rnd[q] \in RandomChoices(raw[q] + 1)}

\* data.results.map(...) (22-28)
MapResults(raw, rnd) ==
  [q \in 1..Len(raw) |-> ShuffleArray(RawAnswers(raw[q]), rnd[q])]

\* The try block from the assignment of questions on (22-29)
ApplyResults(s, raw, rnd) ==
  StartQuiz([s EXCEPT !.questions = MapResults(raw, rnd)])

\* A fetch is started (15): the fetches already in flight are superseded.
StartFetch(f) ==
  [latest |-> 1, superseded |-> f.superseded + f.latest]

InFlightCount == inFlight.latest + inFlight.superseded

\* The response of one fetch in flight is taken off the network.
TakeResponse(f, stale) ==
  IF stale THEN [f EXCEPT !.superseded = @ - 1] ELSE [f EXCEPT !.latest = 0]

----------------------------------------------------------------------------
\* The state when the script starts to run (2-8).  The page is not part of
\* the sources: the next button is hidden or shown as its stylesheet has
\* it, and the answer-buttons element holds no button with a click listener.
Init ==
  /\ currentQuestionIndex = 0
  /\ score = 0
  /\ questions = <<>>
  /\ answerButtons = <<>>
  /\ nextButton \in [innerHTML : {"html"}, display : {"none", "block"}]
  /\ questionElement = [kind |-> "html", no |-> 0, score |-> 0, total |-> 0]
  /\ inFlight = [latest |-> 0, superseded |-> 0]
  /\ pc = "load"
  /\ ev = [op |-> "init", outcome |-> "", stale |-> FALSE, at |-> 0,
           correct |-> FALSE, raw |-> <<>>, from |-> "html",
           answered |-> 0, right |-> 0, advanced |-> 0, fetches |-> 0]
  /\ shuffle = [array |-> <<>>, js |-> <<>>, result |-> <<>>,
                done |-> FALSE]

\* fetchQuestions() at load (157)
LoadFetch ==
  /\ pc = "load"
  /\ pc' = "test1"
  /\ inFlight' = StartFetch(inFlight)
  /\ ev' = Ev("fetch", "load", FALSE, 0, FALSE, <<>>)
  /\ UNCHANGED <<currentQuestionIndex, score, questions, answerButtons,
                 nextButton, questionElement, shuffle>>

\* testSelectAnswer, first call (194): a correct button outside the document
TestSelectCorrect ==
  /\ pc = "test1"
  /\ pc' = "test2"
  /\ Set(SelectAnswer(Cur, [at |-> 0, correct |-> TRUE]))
  /\ ev' = Ev("selectAnswer", "test", FALSE, 0, TRUE, <<>>)
  /\ UNCHANGED <<inFlight, shuffle>>

\* testSelectAnswer, second call (197): an incorrect button
TestSelectIncorrect ==
  /\ pc = "test2"
  /\ pc' = "run"
  /\ Set(SelectAnswer(Cur, [at |-> 0, correct |-> FALSE]))
  /\ ev' = Ev("selectAnswer", "test", FALSE, 0, FALSE, <<>>)
  /\ UNCHANGED <<inFlight, shuffle>>

\* A click on the k-th answer button (88); a disabled button fires no click.
AnswerClick(k) ==
  /\ pc = "run"
  /\ k \in 1..Len(answerButtons)
  /\ ~answerButtons[k].disabled
  /\ Set(SelectAnswer(Cur, [at |-> k, correct |-> answerButtons[k].correct]))
  /\ ev' = Ev("selectAnswer", "click", FALSE, k, answerButtons[k].correct, <<>>)
  /\ UNCHANGED <<inFlight, pc, shuffle>>

\* the listener comparing currentQuestionIndex + 1 with questions.length
NextClickOffByOne ==
  /\ pc = "run"
  /\ nextButton.display = "block"
  /\ IF currentQuestionIndex + 1 < Len(questions)
     THEN /\ Set(HandleNextButton(Cur))
          /\ ev' = Ev("advance", "", FALSE, 0, FALSE, <<>>)
          /\ UNCHANGED inFlight
     ELSE /\ InFlightCount < MaxInFlight
          /\ inFlight' = StartFetch(inFlight)
          /\ ev' = Ev("fetch", "click", FALSE, 0, FALSE, <<>>)
          /\ UNCHANGED <<currentQuestionIndex, score, questions,
                         answerButtons, nextButton, questionElement>>
  /\ UNCHANGED <<pc, shuffle>>

\* A click on the next button (148-154); a hidden button cannot be clicked.
NextClick ==
  /\ pc = "run"
  /\ nextButton.display = "block"
  /\ IF currentQuestionIndex < Len(questions)
     THEN /\ Set(HandleNextButton(Cur))
          /\ ev' = Ev("advance", "", FALSE, 0, FALSE, <<>>)
          /\ UNCHANGED inFlight
     ELSE /\ InFlightCount < MaxInFlight
          /\ inFlight' = StartFetch(inFlight)
          /\ ev' = Ev("fetch", "click", FALSE, 0, FALSE, <<>>)
          /\ UNCHANGED <<currentQuestionIndex, score, questions,
                         answerButtons, nextButton, questionElement>>
  /\ UNCHANGED <<pc, shuffle>>

\* The fetch rejects, the status is not ok or the body is not JSON (15-21):
\* the catch block reports it (30-33).
ResponseNotOk(stale) ==
  /\ pc = "run"
  /\ IF stale THEN inFlight.superseded > 0 ELSE inFlight.latest > 0
  /\ inFlight' = TakeResponse(inFlight, stale)
  /\ ev' = Ev("response", "notok", stale, 0, FALSE, <<>>)
  /\ UNCHANGED <<currentQuestionIndex, score, questions, answerButtons,
                 nextButton, questionElement, pc, shuffle>>

\* a response without results that still reaches startQuiz
ResponseNoResultsStarts(stale) ==
  /\ pc = "run"
  /\ IF stale THEN inFlight.superseded > 0 ELSE inFlight.latest > 0
  /\ inFlight' = TakeResponse(inFlight, stale)
  /\ Set(StartQuiz(Cur))
  /\ ev' = Ev("response", "noresults", stale, 0, FALSE, <<>>)
  /\ UNCHANGED <<pc, shuffle>>

\* The body has no results list: data.results.map throws before questions
\* is assigned (22).
ResponseNoResults(stale) ==
  /\ pc = "run"
  /\ IF stale THEN inFlight.superseded > 0 ELSE inFlight.latest > 0
  /\ inFlight' = TakeResponse(inFlight, stale)
  /\ ev' = Ev("response", "noresults", stale, 0, FALSE, <<>>)
  /\ UNCHANGED <<currentQuestionIndex, score, questions, answerButtons,
                 nextButton, questionElement, pc, shuffle>>

\* The body has a results list (22-29); with no record in it showQuestion
\* throws inside startQuiz and the catch block reports it.
ResponseResults(stale, raw, rnd) ==
  /\ pc = "run"
  /\ IF stale THEN inFlight.superseded > 0 ELSE inFlight.latest > 0
  /\ inFlight' = TakeResponse(inFlight, stale)
  /\ Set(ApplyResults(Cur, raw, rnd))
  /\ ev' = Ev("response", IF Len(raw) = 0 THEN "empty" ELSE "started",
              stale, 0, FALSE, raw)
  /\ UNCHANGED <<pc, shuffle>>

Next ==
  \/ LoadFetch
  \/ TestSelectCorrect
  \/ TestSelectIncorrect
  \/ \E k \in 1..(NumIncorrect + 1) : AnswerClick(k)
  \/ NextClick
  \/ \E stale \in BOOLEAN : ResponseNotOk(stale)
  \/ \E stale \in BOOLEAN : ResponseNoResults(stale)
  \/ \E stale \in BOOLEAN : \E raw \in RawResults :
       \E rnd \in RandomSources(raw) : ResponseResults(stale, raw, rnd)

Spec == Init /\ [][Next]_vars

----------------------------------------------------------------------------
\* selectAnswer is a global function: it can be invoked with any event,
\* as testSelectAnswer does (194, 197), whatever the buttons' disabled flag.
SelectAnswerCall(target) ==
  /\ pc = "run"
  /\ score < MaxScore
  /\ target.at > 0 => target.correct = answerButtons[target.at].correct
  /\ Set(SelectAnswer(Cur, target))
  /\ ev' = Ev("selectAnswer", "call", FALSE, target.at, target.correct, <<>>)
  /\ UNCHANGED <<inFlight, pc, shuffle>>

NextCall ==
  \/ Next
  \/ \E at \in 0..Len(answerButtons) : \E correct \in BOOLEAN :
       SelectAnswerCall([at |-> at, correct |-> correct])

SpecCall == Init /\ [][NextCall]_vars

----------------------------------------------------------------------------
\* shuffleArray on its own: called once on an array of at most MaxLen
\* elements drawn from 1..MaxLen, with every outcome of Math.random.
ShuffleInputs == UNION {[1..n -> 1..MaxLen] : n \in 0..MaxLen}

InitShuffle ==
  /\ currentQuestionIndex = 0
  /\ score = 0
  /\ questions = <<>>
  /\ answerButtons = <<>>
  /\ nextButton = [innerHTML |-> "html", display |-> "none"]
  /\ questionElement = [kind |-> "html", no |-> 0, score |-> 0, total |-> 0]
  /\ inFlight = [latest |-> 0, superseded |-> 0]
  /\ pc = "load"
  /\ ev = [op |-> "init", outcome |-> "", stale |-> FALSE, at |-> 0,
           correct |-> FALSE, raw |-> <<>>, from |-> "html",
           answered |-> 0, right |-> 0, advanced |-> 0, fetches |-> 0]
  /\ shuffle \in [array : ShuffleInputs, js : {<<>>}, result : {<<>>},
                  done : {FALSE}]

\* shuffleArray(array) (41-47)
CallShuffleArray ==
  /\ ~shuffle.done
  /\ \E js \in RandomChoices(Len(shuffle.array)) :
       shuffle' = [array |-> shuffle.array, js |-> js,
                   result |-> ShuffleArray(shuffle.array, js),
                   done |-> TRUE]
  /\ UNCHANGED <<currentQuestionIndex, score, questions, answerButtons,
                 nextButton, questionElement, inFlight, pc, ev>>

NextShuffle == CallShuffleArray

SpecShuffle == InitShuffle /\ [][NextShuffle]_vars

----------------------------------------------------------------------------
\* State predicates of the session

\* startQuiz has run at least once (66 is the only place that writes "Next")
Started == nextButton.innerHTML # "html"

\* The answered lock of the displayed question: every answer button is
\* disabled (120)
AnsweredCurrent ==
  /\ Len(answerButtons) > 0
  /\ \A k \in 1..Len(answerButtons) : answerButtons[k].disabled

InProgress == questionElement.kind = "question"

Finished == questionElement.kind = "score"

\* A question is displayed and has not been answered
Unanswered ==
  /\ InProgress
  /\ Len(answerButtons) > 0
  /\ ~AnsweredCurrent

\* The user has something to click
UserCanAct ==
  \/ nextButton.display = "block"
  \/ \E k \in 1..Len(answerButtons) : ~answerButtons[k].disabled

FailedResponse(e) ==
  e.op = "response" /\ e.outcome \in {"notok", "noresults", "empty"}

----------------------------------------------------------------------------
\* C1 (as stated): after any startQuiz, 0 <= score <= currentQuestionIndex
\* <= questions.length.
C1_ScoreAtMostIndex ==
  Started =>
    /\ 0 <= score
    /\ score <= currentQuestionIndex
    /\ currentQuestionIndex <= Len(questions)

\* C1 (amended): after any startQuiz, 0 <= score <= questions.length and
\* currentQuestionIndex <= questions.length; score <= currentQuestionIndex
\* while the displayed question is unanswered and in Finished, and score <=
\* currentQuestionIndex + 1 once it is answered.
C1_ScoreBounds ==
  Started =>
    /\ 0 <= score
    /\ score <= Len(questions)
    /\ currentQuestionIndex <= Len(questions)
    /\ score <= currentQuestionIndex + 1
    /\ ~AnsweredCurrent => score <= currentQuestionIndex

C1_Witness ==
  /\ Started
  /\ AnsweredCurrent
  /\ score = currentQuestionIndex + 1
  /\ score = Len(questions)

\* C2: once the displayed question is answered, an invocation of
\* selectAnswer changes neither the score nor the answered lock.
C2_ReselectIsNoOp ==
  [][(ev'.op = "selectAnswer" /\ AnsweredCurrent)
       => (score' = score /\ AnsweredCurrent')]_vars

\* C3: a response that arrives after a newer fetch has been started does
\* not replace questions and does not reset the index or the score of the
\* session another response has seeded.  Stated for the stale responses that
\* carry questions, the empty ones being the matter of C4.
C3_StaleResponseDiscarded ==
  [][(ev'.op = "response" /\ ev'.stale /\ ev'.outcome = "started"
        /\ Started /\ Len(questions) > 0)
       => UNCHANGED <<questions, currentQuestionIndex, score>>]_vars

\* C4: a failed fetch (not ok, no results list, zero questions) leaves
\* questions, the index and the score of the existing session as they were.
C4_FailedFetchUnchanged ==
  [][(FailedResponse(ev') /\ Started /\ Len(questions) > 0)
       => UNCHANGED <<questions, currentQuestionIndex, score>>]_vars

\* C5: a start with an empty batch never gives a session InProgress with
\* no questions, and changes nothing of the session.
C5_EmptyBatchRejected ==
  /\ [](InProgress => Len(questions) > 0)
  /\ [][(ev'.op = "response" /\ ev'.outcome = "empty")
          => UNCHANGED <<currentQuestionIndex, score, questions,
                         answerButtons, nextButton, questionElement>>]_vars

\* C6: right after a failed fetch the user can still act (click the next
\* button or an answer), unless a response is still to come.
C6_FailureRetryable ==
  FailedResponse(ev) => (UserCanAct \/ InFlightCount > 0)

\* C7: a selectAnswer on an unanswered question sets the answered lock and
\* adds 1 to the score when the chosen answer is the correct one of the
\* current question, 0 otherwise.
C7_EffectiveSelect ==
  [][(ev'.op = "selectAnswer" /\ Unanswered /\ ev'.at > 0)
       => /\ AnsweredCurrent'
          /\ score' = score +
               (IF questions[currentQuestionIndex + 1][ev'.at].correct
                THEN 1 ELSE 0)]_vars

C7_Witness ==
  /\ ev.op = "selectAnswer"
  /\ ev.outcome = "click"
  /\ ev.correct
  /\ AnsweredCurrent
  /\ score = 2

\* C8: the next button is hidden while the displayed question is
\* unanswered, and no advance is taken from such a state.
C8_AdvanceOnlyWhenAnswered ==
  /\ [](Unanswered => nextButton.display = "none")
  /\ [][(ev'.op = "advance") => AnsweredCurrent]_vars

C8_Witness ==
  /\ ev.op = "advance"
  /\ currentQuestionIndex = 1
  /\ Unanswered

\* C9: an advance adds exactly 1 to the index; the score is shown exactly
\* when the new index is questions.length, otherwise the next question is
\* shown unanswered; the lock is false after every start and every
\* non-terminal advance.
C9_Advance ==
  [][/\ (ev'.op = "advance") =>
          /\ currentQuestionIndex' = currentQuestionIndex + 1
          /\ Finished' <=> (currentQuestionIndex' = Len(questions'))
          /\ ~Finished' =>
               /\ InProgress'
               /\ questionElement'.no = currentQuestionIndex' + 1
               /\ Len(answerButtons') > 0
               /\ ~AnsweredCurrent'
     /\ (ev'.op = "response" /\ ev'.outcome \in {"started", "empty"})
          => ~AnsweredCurrent']_vars

C9_Witness ==
  /\ ev.op = "advance"
  /\ ev.from = "question"
  /\ InProgress
  /\ currentQuestionIndex = 1
  /\ score = 1
  /\ ~AnsweredCurrent

\* The questions are the records of raw, in order, each with the answers
\* of its record in some order: one correct answer and the incorrect ones
BuiltFrom(qs, raw) ==
  /\ Len(qs) = Len(raw)
  /\ \A q \in 1..Len(raw) :
       /\ Len(qs[q]) = raw[q] + 1
       /\ Cardinality({k \in 1..Len(qs[q]) : qs[q][k].correct}) = 1

\* C10: a response with at least one question, in any prior state, gives
\* index 0, score 0, the first question displayed unanswered, and
\* questions built from the response.
C10_Start ==
  [][(ev'.op = "response" /\ ev'.outcome = "started")
       => /\ currentQuestionIndex' = 0
          /\ score' = 0
          /\ ~AnsweredCurrent'
          /\ InProgress'
          /\ questionElement'.no = 1
          /\ Len(answerButtons') = Len(questions'[1])
          /\ BuiltFrom(questions', ev'.raw)]_vars

\* a restart of a session in progress
C10_Witness ==
  /\ ev.op = "response"
  /\ ev.outcome = "started"
  /\ ev.from = "question"
  /\ ev.stale
  /\ currentQuestionIndex = 0
  /\ score = 0
  /\ Len(questions) = MaxQuestions

----------------------------------------------------------------------------
\* C11: a response with a non-success status or without the results list
\* does not reach startQuiz: nothing of the session changes (questions,
\* index, score, the buttons, the question element, the button label), and
\* the fetch is over.
C11_NoSessionOnBadResponse ==
  [][(ev'.op = "response" /\ ev'.outcome \in {"notok", "noresults"})
       => /\ UNCHANGED <<currentQuestionIndex, score, questions,
                         answerButtons, nextButton, questionElement>>
          /\ InFlightCount' = InFlightCount - 1
          /\ ev'.answered = ev.answered]_vars

\* such a response arrived while a session with a score was in progress
C11_Witness ==
  /\ ev.op = "response"
  /\ ev.outcome = "noresults"
  /\ InProgress
  /\ score > 0
  /\ Len(questions) = MaxQuestions

\* The number of elements of seq equal to v
Count(seq, v) == Cardinality({k \in 1..Len(seq) : seq[k] = v})

\* C12: shuffleArray returns a sequence of the same length with the same
\* multiset of elements, for every choice of j at every step; an array of
\* length 0 or 1 is returned as it is.
C12_ShufflePreserves ==
  shuffle.done =>
    /\ Len(shuffle.result) = Len(shuffle.array)
    /\ \A v \in 1..MaxLen :
         Count(shuffle.result, v) = Count(shuffle.array, v)
    /\ Len(shuffle.array) <= 1 => shuffle.result = shuffle.array

\* an array with a repeated element has been reordered
C12_Witness ==
  /\ shuffle.done
  /\ Len(shuffle.array) = 3
  /\ shuffle.array[1] = shuffle.array[2]
  /\ shuffle.array[3] # shuffle.array[1]
  /\ shuffle.result[1] = shuffle.array[3]

ExactlyOneCorrect(answers) ==
  Cardinality({k \in 1..Len(answers) : answers[k].correct}) = 1

\* C13: every question in questions has exactly one correct answer, and so
\* has the shuffle of the answers of a raw record with any number (below
\* MaxLen) of incorrect answers, whatever the shuffle draws.
C13_ExactlyOneCorrect ==
  /\ \A q \in 1..Len(questions) :
       /\ Len(questions[q]) = NumIncorrect + 1
       /\ ExactlyOneCorrect(questions[q])
  /\ \A n \in 0..(MaxLen - 1) : \A js \in RandomChoices(n + 1) :
       /\ Len(ShuffleArray(RawAnswers(n), js)) = n + 1
       /\ ExactlyOneCorrect(ShuffleArray(RawAnswers(n), js))

\* a batch whose first question has its correct answer moved by the shuffle
C13_Witness ==
  /\ ev.op = "response"
  /\ ev.outcome = "started"
  /\ Len(questions) = MaxQuestions
  /\ ~questions[1][1].correct
  /\ questions[2][1].correct

Distinct(seq) ==
  \A k, l \in 1..Len(seq) : seq[k] = seq[l] => k = l

\* Every reordering of seq
Reorderings(seq) ==
  {[k \in 1..Len(seq) |-> seq[p[k]]] :
     p \in {f \in [1..Len(seq) -> 1..Len(seq)] : Distinct(f)}}

ShuffleOutputs(array) ==
  {ShuffleArray(array, js) : js \in RandomChoices(Len(array))}

\* C19: j is drawn from 0..i for every i from length - 1 down to 1; for an
\* array of distinct elements the outputs over all draws are exactly its
\* permutations, and two different sequences of draws give different
\* outputs.
C19_FisherYates ==
  /\ shuffle.done =>
       /\ DOMAIN shuffle.js = 1..(Len(shuffle.array) - 1)
       /\ \A i \in DOMAIN shuffle.js : shuffle.js[i] \in 0..i
  /\ Distinct(shuffle.array) =>
       /\ ShuffleOutputs(shuffle.array) = Reorderings(shuffle.array)
       /\ \A js1, js2 \in RandomChoices(Len(shuffle.array)) :
            ShuffleArray(shuffle.array, js1) = ShuffleArray(shuffle.array, js2)
              => js1 = js2

\* three distinct elements have been rotated
C19_Witness ==
  /\ shuffle.done
  /\ shuffle.array = <<1, 2, 3>>
  /\ shuffle.result = <<3, 1, 2>>

----------------------------------------------------------------------------
\* C14: when the last advance of a session shows the score, every question
\* of the batch has been answered once and advanced over once, and the
\* score shown is the number of clicks on a correct answer, out of
\* questions.length.
C14_FinalScore ==
  (ev.op = "advance" /\ Finished) =>
    /\ currentQuestionIndex = Len(questions)
    /\ ev.answered = Len(questions)
    /\ ev.advanced = Len(questions)
    /\ score = ev.right
    /\ questionElement.score = ev.right
    /\ questionElement.total = Len(questions)

\* one correct and one incorrect answer over two questions: 1 out of 2
C14_Witness ==
  /\ ev.op = "advance"
  /\ Finished
  /\ questionElement.score = 1
  /\ questionElement.total = 2
  /\ ev.right = 1
  /\ ev.answered = 2

\* C15: once startQuiz has run, the number of questions answered in the
\* session is currentQuestionIndex, plus one when the displayed question is
\* answered; the score is at most that number, and the index at most
\* questions.length.
C15_ScoreAtMostAnswered ==
  Started =>
    /\ ev.answered =
         currentQuestionIndex + (IF AnsweredCurrent THEN 1 ELSE 0)
    /\ score <= ev.answered
    /\ currentQuestionIndex <= Len(questions)

\* the second question answered, both correctly, with a superseded fetch
\* still to arrive
C15_Witness ==
  /\ Started
  /\ ev.answered = 2
  /\ score = 2
  /\ currentQuestionIndex = 1
  /\ inFlight.superseded > 0

\* The displayed question is locked: every button disabled, the correct
\* one marked, the next button shown
LockedView ==
  /\ Len(answerButtons) > 0
  /\ \A k \in 1..Len(answerButtons) :
       /\ answerButtons[k].disabled
       /\ answerButtons[k].correct => "correct" \in answerButtons[k].classList
  /\ nextButton.display = "block"

\* showQuestion or showScore is called by this step
Redisplays(e) ==
  \/ e.op = "advance"
  \/ e.op = "response" /\ e.outcome \in {"started", "empty"}

\* C16: a click on an answer locks the displayed question and marks the
\* clicked button incorrect exactly when it is a wrong answer; the buttons
\* and the next button stay so until showQuestion or showScore is called.
C16_LockedAfterSelect ==
  [][/\ (ev'.op = "selectAnswer" /\ ev'.outcome = "click") =>
          /\ LockedView'
          /\ ("incorrect" \in answerButtons'[ev'.at].classList)
               <=> ~answerButtons[ev'.at].correct
          /\ \A k \in 1..Len(answerButtons') :
               k # ev'.at => "incorrect" \notin answerButtons'[k].classList
     /\ (LockedView /\ ~Redisplays(ev')) =>
          /\ LockedView'
          /\ answerButtons' = answerButtons]_vars

\* a wrong choice still locked and marked after a failed response
C16_Witness ==
  /\ ev.op = "response"
  /\ ev.outcome = "notok"
  /\ LockedView
  /\ \E k \in 1..Len(answerButtons) :
       "incorrect" \in answerButtons[k].classList

\* C17 (as stated): a next-button click fetches only when the index is not
\* below questions.length, and from the moment the score is shown to the
\* start of the next session exactly one fetch is issued.
C17_OneFetchPerReplay ==
  /\ (ev.op = "fetch" /\ ev.outcome = "click")
       => currentQuestionIndex >= Len(questions)
  /\ Finished => ev.fetches <= 1

\* C17 (amended): the load-time script issues one fetch; a next-button
\* click issues one fetch exactly when the index is not below
\* questions.length, which never is while a question is displayed, and
\* advances otherwise without fetching.
C17_FetchOnlyWithoutQuestion ==
  [][/\ (ev'.op = "fetch" /\ ev'.outcome = "click") =>
          /\ currentQuestionIndex >= Len(questions)
          /\ Len(answerButtons) = 0
          /\ InFlightCount' = InFlightCount + 1
          /\ UNCHANGED <<currentQuestionIndex, score, questions,
                         answerButtons, nextButton, questionElement>>
     /\ (ev'.op = "fetch" /\ ev'.outcome = "load") =>
          (InFlightCount = 0 /\ InFlightCount' = 1)
     /\ (ev'.op = "advance") =>
          /\ currentQuestionIndex < Len(questions)
          /\ UNCHANGED inFlight]_vars

\* Play Again clicked a second time while the score is shown
C17_Witness ==
  /\ ev.op = "fetch"
  /\ ev.outcome = "click"
  /\ Finished
  /\ ev.fetches = 2
  /\ InFlightCount = 2

\* C18: the index grows only by handleNextButton; selectAnswer leaves the
\* index and questions alone; handleNextButton leaves the score and
\* questions alone; questions changes only when a response with results is
\* applied.
C18_Frame ==
  [][/\ (currentQuestionIndex' > currentQuestionIndex)
          => (ev'.op = "advance"
                /\ currentQuestionIndex' = currentQuestionIndex + 1)
     /\ (ev'.op = "selectAnswer")
          => UNCHANGED <<currentQuestionIndex, questions>>
     /\ (ev'.op = "advance") => UNCHANGED <<score, questions>>
     /\ (questions' # questions)
          => (ev'.op = "response" /\ ev'.outcome \in {"started", "empty"})
    ]_vars

\* an advance that kept a score
C18_Witness ==
  /\ ev.op = "advance"
  /\ ev.right = 1
  /\ score = 1
  /\ currentQuestionIndex = 1
  /\ InProgress

====
